---- MODULE Spec2Model ----
(***************************************************************************)
(* A model of three pieces of the editor snapshot:                         *)
(*   - the scrollable element and its two scrollbars                       *)
(*     (vs/base/browser/ui/scrollbar),                                     *)
(*   - the computation of the editor's wrapping info and the application   *)
(*     of configuration to editors (vs/editor/common/config),              *)
(*   - the configuration service (vs/platform/configuration/common).       *)
(* Each piece has its own specification; the variables of the other        *)
(* pieces stay at their initial value.                                     *)
(*                                                                         *)
(* Numbers are integers: every size, position, wheel delta and             *)
(* sensitivity the model draws is integral, so Math.round is the identity  *)
(* on them and the ratios of _refreshComputedValues are computed exactly.  *)
(***************************************************************************)
EXTENDS Integers, Sequences, FiniteSets, TLC

VARIABLES
    opts,        \* ScrollableElement._options (the fields the code reads)
    isMac,       \* Platform.isMacintosh
    scrollable,  \* the IScrollable behind DelegateScrollable
    vsb,         \* ScrollableElement._verticalScrollbar
    hsb,         \* ScrollableElement._horizontalScrollbar
    elem,        \* the ScrollableElement's own fields and DOM nodes
    op,          \* the handler that ran last, with its input
    steps,       \* the number of handlers that ran since construction
    wrap,        \* CommonEditorConfiguration: raw options, model facts, result
    apply,       \* EditorConfiguration.apply: config, editors, loop position
    svc          \* ConfigurationService and the promises it waits for

scrollVars == <<opts, isMac, scrollable, vsb, hsb, elem, op, steps>>
vars == <<opts, isMac, scrollable, vsb, hsb, elem, op, steps, wrap, apply, svc>>

Max(a, b) == IF a >= b THEN a ELSE b
Min(a, b) == IF a <= b THEN a ELSE b
Abs(a) == IF a >= 0 THEN a ELSE -a

(***************************************************************************)
(* Program constants.                                                      *)
(***************************************************************************)
MINIMUM_SLIDER_SIZE == 20
SCROLL_WHEEL_SENSITIVITY == 50
DefaultArrowSize == 11
DefaultScrollbarSize == 10

(***************************************************************************)
(* Bounds of the model.                                                    *)
(***************************************************************************)
\* sizes are multiples of SizeUnit, up to MaxSizeUnits units
MaxSizeUnits == 2
\* the number of handlers a run of the scrollable element goes through
MaxSteps == 3
\* the largest mouseWheelScrollSensitivity drawn
MaxSensitivity == 2

SizeUnit == 2 * SCROLL_WHEEL_SENSITIVITY
Heights == {0, SizeUnit}
Widths == {SizeUnit}
ScrollSizes == {0, MaxSizeUnits * SizeUnit}
ScrollPositions == {0, SizeUnit}
WheelDeltas == {-1, 0, 1}
Visibilities == {"Auto", "Hidden", "Visible"}

(***************************************************************************)
(* visibilityFromString                                                    *)
(***************************************************************************)
visibilityFromString(s) ==
    CASE s = "hidden" -> "Hidden"
      [] s = "visible" -> "Visible"
      [] OTHER -> "Auto"

(***************************************************************************)
(* ScrollbarState: the computed values, as _refreshComputedValues sets     *)
(* them from visibleSize, scrollSize and scrollPosition.                   *)
(***************************************************************************)
computedAvailableSize(sb) == Max(0, sb.visibleSize - sb.oppositeScrollbarSize)

computedRepresentableSize(sb) == Max(0, computedAvailableSize(sb) - 2 * sb.arrowSize)

computedIsNeeded(sb) == sb.scrollSize > sb.visibleSize

\* twice the slider position before Math.round (the artificial offset is a half)
sliderPosition2(sb) ==
    LET rep == computedRepresentableSize(sb)
        size == (sb.visibleSize * rep) \div sb.scrollSize
        pos == (sb.scrollPosition * rep) \div sb.scrollSize
    IN  IF size >= MINIMUM_SLIDER_SIZE THEN 2 * pos
        ELSE LET p0 == 2 * pos - (MINIMUM_SLIDER_SIZE - size)
                 p1 == IF p0 + 2 * MINIMUM_SLIDER_SIZE > 2 * rep
                       THEN 2 * rep - 2 * MINIMUM_SLIDER_SIZE ELSE p0
             IN  IF p1 < 0 THEN 0 ELSE p1

computedSliderSize(sb) ==
    IF ~computedIsNeeded(sb) THEN computedRepresentableSize(sb)
    ELSE Max(MINIMUM_SLIDER_SIZE,
             (sb.visibleSize * computedRepresentableSize(sb)) \div sb.scrollSize)

computedSliderPosition(sb) ==
    IF ~computedIsNeeded(sb) THEN 0
    ELSE (sliderPosition2(sb) + 1) \div 2

validateScrollPosition(sb, desiredScrollPosition) ==
    Min(Max(desiredScrollPosition, 0), sb.scrollSize - sb.visibleSize)

(***************************************************************************)
(* VisibilityController                                                    *)
(***************************************************************************)
applyVisibilitySettingNoHidden(sb, shouldBeVisible) ==
    IF sb.visibility = "Visible" THEN TRUE ELSE shouldBeVisible

applyVisibilitySettingNoVisible(sb, shouldBeVisible) ==
    IF sb.visibility = "Hidden" THEN FALSE ELSE shouldBeVisible

applyVisibilitySetting(sb, shouldBeVisible) ==
    IF sb.visibility = "Hidden" THEN FALSE
    ELSE IF sb.visibility = "Visible" THEN TRUE
    ELSE shouldBeVisible

vcReveal(sb) ==
    IF sb.isVisible THEN sb
    ELSE [sb EXCEPT !.isVisible = TRUE, !.revealTimer = TRUE]

vcHide(sb, withFadeAway) ==
    IF ~sb.isVisible THEN [sb EXCEPT !.revealTimer = FALSE]
    ELSE [sb EXCEPT !.revealTimer = FALSE,
                    !.isVisible = FALSE,
                    !.className = IF withFadeAway THEN "invisible fade" ELSE "invisible"]

ensureVisibility(sb) ==
    IF ~sb.isNeeded THEN vcHide(sb, FALSE)
    ELSE IF sb.shouldBeVisible THEN vcReveal(sb)
    ELSE vcHide(sb, TRUE)

setShouldBeVisible(sb, rawShouldBeVisible) ==
    LET shouldBeVisible == applyVisibilitySetting(sb, rawShouldBeVisible)
    IN  IF sb.shouldBeVisible # shouldBeVisible
        THEN ensureVisibility([sb EXCEPT !.shouldBeVisible = shouldBeVisible])
        ELSE sb

setIsNeeded(sb, isNeeded) ==
    IF sb.isNeeded # isNeeded
    THEN ensureVisibility([sb EXCEPT !.isNeeded = isNeeded])
    ELSE sb

\* setDomNode: the invisible class, then the Hidden/Visible configuration
setDomNode(sb) == setShouldBeVisible([sb EXCEPT !.className = "invisible"], FALSE)

(***************************************************************************)
(* AbstractScrollbar                                                       *)
(***************************************************************************)
render(sb) ==
    IF ~sb.shouldRender THEN sb
    ELSE [sb EXCEPT !.shouldRender = FALSE,
                    !.domLargeSize = computedAvailableSize(sb),
                    !.domSmallSize = sb.scrollbarSize,
                    !.sliderSize = computedSliderSize(sb),
                    !.sliderPosition = sb.arrowSize + computedSliderPosition(sb)]

afterStateChange(sb) ==
    LET s1 == setIsNeeded(sb, computedIsNeeded(sb))
        s2 == [s1 EXCEPT !.shouldRender = TRUE]
    IN  IF ~sb.lazyRender THEN render(s2) ELSE s2

onElementSize(sb, visibleSize) ==
    IF sb.visibleSize # visibleSize
    THEN afterStateChange([sb EXCEPT !.visibleSize = visibleSize])
    ELSE sb

onElementScrollSize(sb, elementScrollSize) ==
    IF sb.scrollSize # elementScrollSize
    THEN afterStateChange([sb EXCEPT !.scrollSize = elementScrollSize])
    ELSE sb

onElementScrollPosition(sb, elementScrollPosition) ==
    IF sb.scrollPosition # elementScrollPosition
    THEN afterStateChange([sb EXCEPT !.scrollPosition = elementScrollPosition])
    ELSE sb

beginReveal(sb) == setShouldBeVisible(sb, TRUE)

beginHide(sb) == setShouldBeVisible(sb, FALSE)

\* the fields the AbstractScrollbar constructor, _createDomNode and
\* _createSlider leave behind; -1 stands for a style that was never set
NewScrollbar(o, visibility, arrowSize, scrollbarSize, oppositeScrollbarSize) ==
    setDomNode(
      [ visibility |-> visibility,
        lazyRender |-> o.lazyRender,
        arrowSize |-> arrowSize,
        scrollbarSize |-> scrollbarSize,
        oppositeScrollbarSize |-> oppositeScrollbarSize,
        visibleSize |-> 0,
        scrollSize |-> 0,
        scrollPosition |-> 0,
        shouldBeVisible |-> FALSE,
        isNeeded |-> FALSE,
        isVisible |-> FALSE,
        revealTimer |-> FALSE,
        className |-> "invisible",
        shouldRender |-> TRUE,
        domLargeSize |-> -1,
        domSmallSize |-> -1,
        sliderSize |-> -1,
        sliderPosition |-> -1,
        sliderActive |-> FALSE ])

VerticalScrollbar(o) ==
    NewScrollbar(o, o.vertical,
                 IF o.verticalHasArrows THEN o.arrowSize ELSE 0,
                 IF o.vertical = "Hidden" THEN 0 ELSE o.verticalScrollbarSize,
                 0)

HorizontalScrollbar(o) ==
    NewScrollbar(o, o.horizontal,
                 IF o.horizontalHasArrows THEN o.arrowSize ELSE 0,
                 IF o.horizontal = "Hidden" THEN 0 ELSE o.horizontalScrollbarSize,
                 IF o.vertical = "Hidden" THEN 0 ELSE o.verticalScrollbarSize)

(***************************************************************************)
(* ScrollableElement._createOptions.  Creation options are functions from  *)
(* the keys that are present to their values.                              *)
(***************************************************************************)
ensureValue(source, prop, value) ==
    IF prop \in DOMAIN source THEN source[prop] ELSE value

createOptions(options) ==
    [ lazyRender |-> ensureValue(options, "lazyRender", FALSE),
      useShadows |-> ensureValue(options, "useShadows", TRUE),
      handleMouseWheel |-> ensureValue(options, "handleMouseWheel", TRUE),
      flipAxes |-> ensureValue(options, "flipAxes", FALSE),
      mouseWheelScrollSensitivity |-> ensureValue(options, "mouseWheelScrollSensitivity", 1),
      arrowSize |-> ensureValue(options, "arrowSize", DefaultArrowSize),
      horizontal |-> visibilityFromString(ensureValue(options, "horizontal", "auto")),
      horizontalScrollbarSize |-> ensureValue(options, "horizontalScrollbarSize", DefaultScrollbarSize),
      horizontalHasArrows |-> ensureValue(options, "horizontalHasArrows", FALSE),
      vertical |-> visibilityFromString(ensureValue(options, "vertical", "auto")),
      verticalScrollbarSize |-> ensureValue(options, "verticalScrollbarSize", DefaultScrollbarSize),
      verticalHasArrows |-> ensureValue(options, "verticalHasArrows", FALSE) ]

(***************************************************************************)
(* ScrollableElement.  Its handlers are written over a bundle              *)
(* [e, v, h, s]: the element's fields, the two scrollbars, the scrollable. *)
(***************************************************************************)
Bundle == [e |-> elem, v |-> vsb, h |-> hsb, s |-> scrollable]

\* the number of listeners in _mouseWheelToDispose after the call
setListeningToMouseWheelAlwaysAdd(mouseWheelToDispose, shouldListen) ==
    IF shouldListen THEN mouseWheelToDispose + 2 ELSE 0

setListeningToMouseWheel(mouseWheelToDispose, shouldListen) ==
    IF (mouseWheelToDispose > 0) = shouldListen THEN mouseWheelToDispose
    ELSE IF shouldListen THEN 2 ELSE 0

scheduleHide(st) == [st EXCEPT !.e.hideTimeout = TRUE]

reveal(st) ==
    scheduleHide([st EXCEPT !.v = beginReveal(st.v), !.h = beginReveal(st.h)])

hideUnguarded(st) ==
    [st EXCEPT !.v = beginHide(st.v), !.h = beginHide(st.h)]

hide(st) ==
    IF ~st.e.mouseIsOver /\ ~st.e.isDragging
    THEN [st EXCEPT !.v = beginHide(st.v), !.h = beginHide(st.h)]
    ELSE st

elementRender(st, o) ==
    IF ~st.e.shouldRender THEN st
    ELSE LET enableTop == st.s.scrollTop > 0
             enableLeft == st.s.scrollLeft > 0
             e1 == [st.e EXCEPT !.shouldRender = FALSE]
             e2 == IF o.useShadows
                   THEN [e1 EXCEPT
                           !.leftShadow = IF enableLeft THEN "shadow left" ELSE "shadow",
                           !.topShadow = IF enableTop THEN "shadow top" ELSE "shadow",
                           !.topLeftShadow =
                               IF enableTop /\ enableLeft THEN "shadow top-left-corner top left"
                               ELSE IF enableTop THEN "shadow top-left-corner top"
                               ELSE IF enableLeft THEN "shadow top-left-corner left"
                               ELSE "shadow top-left-corner"]
                   ELSE e1
         IN  [st EXCEPT !.e = e2, !.h = render(st.h), !.v = render(st.v)]

onScroll(st, o) ==
    LET h1 == onElementScrollSize(st.h, st.s.scrollWidth)
        r1 == h1.shouldRender \/ st.e.shouldRender
        v1 == onElementScrollSize(st.v, st.s.scrollHeight)
        r2 == v1.shouldRender \/ r1
        v2 == onElementScrollPosition(v1, st.s.scrollTop)
        r3 == v2.shouldRender \/ r2
        h2 == onElementScrollPosition(h1, st.s.scrollLeft)
        r4 == h2.shouldRender \/ r3
        r5 == IF o.useShadows THEN TRUE ELSE r4
        s1 == reveal([st EXCEPT !.h = h2, !.v = v2, !.e.shouldRender = r5])
    IN  IF ~o.lazyRender THEN elementRender(s1, o) ELSE s1

actualElementDimensions(st, width, height) ==
    LET v1 == onElementSize(st.v, height)
        r1 == v1.shouldRender \/ st.e.shouldRender
        h1 == onElementSize(st.h, width)
        r2 == h1.shouldRender \/ r1
    IN  [st EXCEPT !.v = v1, !.h = h1, !.e.shouldRender = r2]

\* DomNodeScrollable.setScrollTop/setScrollLeft: the DOM node keeps the
\* position inside its scroll range; the scroll event follows later
scrollableSet(size, position) == Min(Max(position, 0), size)

\* AbstractScrollbar.setDesiredScrollPosition for the vertical scrollbar
setDesiredScrollTop(st, desiredScrollPosition) ==
    LET desired == validateScrollPosition(st.v, desiredScrollPosition)
        old == st.s.scrollTop
        new == scrollableSet(st.s.scrollHeight, desired)
        s1 == [st EXCEPT !.s.scrollTop = new]
    IN  IF old # new
        THEN [st |-> [s1 EXCEPT !.v = onElementScrollPosition(s1.v, new)], changed |-> TRUE]
        ELSE [st |-> s1, changed |-> FALSE]

\* AbstractScrollbar.setDesiredScrollPosition for the horizontal scrollbar
setDesiredScrollLeft(st, desiredScrollPosition) ==
    LET desired == validateScrollPosition(st.h, desiredScrollPosition)
        old == st.s.scrollLeft
        new == scrollableSet(st.s.scrollWidth, desired)
        s1 == [st EXCEPT !.s.scrollLeft = new]
    IN  IF old # new
        THEN [st |-> [s1 EXCEPT !.h = onElementScrollPosition(s1.h, new)], changed |-> TRUE]
        ELSE [st |-> s1, changed |-> FALSE]

(***************************************************************************)
(* The state the ScrollableElement constructor leaves behind.              *)
(***************************************************************************)
NoKeys == [k \in {} |-> FALSE]

Optional(key, values) == {NoKeys} \cup {key :> x : x \in values}

\* the creation options drawn: at most one option away from its default,
\* and lazyRender together with the options that decide what is rendered
CreationOptions ==
    Optional("lazyRender", {TRUE})
    \cup Optional("useShadows", {FALSE})
    \cup Optional("flipAxes", {TRUE})
    \cup Optional("handleMouseWheel", {FALSE})
    \cup Optional("mouseWheelScrollSensitivity", {MaxSensitivity})
    \cup Optional("vertical", {"hidden", "visible"})
    \cup Optional("horizontal", {"hidden", "visible"})
    \cup { ("lazyRender" :> TRUE) @@ b :
             b \in Optional("useShadows", {FALSE})
                    \cup Optional("vertical", {"hidden"})
                    \cup Optional("horizontal", {"visible"}) }

\* the platforms drawn with them: Platform.isMacintosh matters to the wheel only
Platforms(options) ==
    IF DOMAIN options \subseteq {"flipAxes"} THEN BOOLEAN ELSE {FALSE}

NoTimeout == [set |-> FALSE, width |-> 0, height |-> 0]

NewElement(o) ==
    [ shouldRender |-> TRUE,
      isDragging |-> FALSE,
      mouseIsOver |-> FALSE,
      hideTimeout |-> FALSE,
      dimensionsTimeout |-> NoTimeout,
      mouseWheelToDispose |-> setListeningToMouseWheel(0, o.handleMouseWheel),
      leftShadow |-> IF o.useShadows THEN "shadow" ELSE "none",
      topShadow |-> IF o.useShadows THEN "shadow" ELSE "none",
      topLeftShadow |-> IF o.useShadows THEN "shadow top-left-corner" ELSE "none" ]

Construct(options, s0, width, height) ==
    LET o == createOptions(options)
        st0 == [e |-> NewElement(o), v |-> VerticalScrollbar(o),
                h |-> HorizontalScrollbar(o), s |-> s0]
        st1 == actualElementDimensions(st0, width, height)
        h2 == onElementScrollSize(st1.h, s0.scrollWidth)
        v2 == onElementScrollSize(st1.v, s0.scrollHeight)
    IN  [st1 EXCEPT !.h = h2, !.v = v2, !.e.shouldRender = TRUE]

NoOp == [name |-> "constructor", deltaX |-> 0, deltaY |-> 0, options |-> NoKeys]

Did(name) == [name |-> name, deltaX |-> 0, deltaY |-> 0, options |-> NoKeys]

\* the other pieces' variables while the scrollable element runs
WrapIdle == [phase |-> "idle"]
ApplyIdle == [phase |-> "idle"]
SvcIdle == [phase |-> "idle"]

\* the element is constructed over a scrollable whose content overflows it
InitialScrollable ==
    [scrollTop |-> 0, scrollLeft |-> 0,
     scrollWidth |-> MaxSizeUnits * SizeUnit, scrollHeight |-> MaxSizeUnits * SizeUnit]

InitScroll ==
    /\ \E options \in CreationOptions :
         \E mac \in Platforms(options) :
          LET st == Construct(options, InitialScrollable, SizeUnit, SizeUnit)
          IN  /\ opts = createOptions(options)
              /\ isMac = mac
              /\ scrollable = st.s
              /\ vsb = st.v
              /\ hsb = st.h
              /\ elem = st.e
    /\ op = NoOp
    /\ steps = 0
    /\ wrap = WrapIdle
    /\ apply = ApplyIdle
    /\ svc = SvcIdle

Commit(st, o, did) ==
    /\ steps < MaxSteps
    /\ steps' = steps + 1
    /\ elem' = st.e
    /\ vsb' = st.v
    /\ hsb' = st.h
    /\ scrollable' = st.s
    /\ opts' = o
    /\ op' = did
    /\ UNCHANGED <<isMac, wrap, apply, svc>>

(***************************************************************************)
(* Fade in / fade out.                                                     *)
(***************************************************************************)
OnMouseOver ==
    Commit(reveal([Bundle EXCEPT !.e.mouseIsOver = TRUE]), opts, Did("mouseOver"))

OnMouseOut ==
    Commit(hide([Bundle EXCEPT !.e.mouseIsOver = FALSE]), opts, Did("mouseOut"))

\* _sliderMouseDown with the left button, on either scrollbar
OnDragStart ==
    /\ ~elem.isDragging
    /\ \E which \in {"v", "h"} :
         LET s1 == IF which = "v" THEN [Bundle EXCEPT !.v.sliderActive = TRUE]
                                  ELSE [Bundle EXCEPT !.h.sliderActive = TRUE]
         IN  Commit(reveal([s1 EXCEPT !.e.isDragging = TRUE]), opts, Did("dragStart"))

\* the mouse move monitor's stop callback
OnDragEnd ==
    /\ elem.isDragging
    /\ Commit(hide([Bundle EXCEPT !.v.sliderActive = FALSE, !.h.sliderActive = FALSE,
                                  !.e.isDragging = FALSE]),
              opts, Did("dragEnd"))

\* the mouse move monitor's move callback: the slider follows the mouse
OnDragMove ==
    /\ elem.isDragging
    /\ \E position \in ScrollPositions :
         IF vsb.sliderActive
         THEN Commit(setDesiredScrollTop(Bundle, position).st, opts, Did("dragMove"))
         ELSE Commit(setDesiredScrollLeft(Bundle, position).st, opts, Did("dragMove"))

\* _hideTimeout fires, HIDE_TIMEOUT after the last _reveal
HideTimeout ==
    /\ elem.hideTimeout
    /\ Commit(hide([Bundle EXCEPT !.e.hideTimeout = FALSE]), opts, Did("hideTimeout"))

\* VisibilityController._revealTimer fires
RevealTimer ==
    \/ /\ vsb.revealTimer
       /\ Commit([Bundle EXCEPT !.v.revealTimer = FALSE, !.v.className = "visible"],
                 opts, Did("revealTimer"))
    \/ /\ hsb.revealTimer
       /\ Commit([Bundle EXCEPT !.h.revealTimer = FALSE, !.h.className = "visible"],
                 opts, Did("revealTimer"))

(***************************************************************************)
(* Size and scroll events.                                                 *)
(***************************************************************************)
OnElementDimensions ==
    \E width \in Widths, height \in Heights, synchronous \in BOOLEAN :
        IF synchronous
        THEN Commit([actualElementDimensions(Bundle, width, height)
                        EXCEPT !.e.dimensionsTimeout = NoTimeout],
                    opts, Did("elementDimensions"))
        ELSE Commit([Bundle EXCEPT !.e.dimensionsTimeout =
                        [set |-> TRUE, width |-> width, height |-> height]],
                    opts, Did("elementDimensions"))

\* _onElementDimensionsTimeout fires
DimensionsTimeout ==
    /\ elem.dimensionsTimeout.set
    /\ Commit([actualElementDimensions(Bundle, elem.dimensionsTimeout.width,
                                       elem.dimensionsTimeout.height)
                 EXCEPT !.e.dimensionsTimeout = NoTimeout],
              opts, Did("dimensionsTimeout"))

\* the scrollable reports a scroll event: its content or its position changed,
\* or the position a handler set before is reported back
OnScroll ==
    \E scrollWidth \in ScrollSizes, scrollHeight \in ScrollSizes,
       scrollLeft \in ScrollPositions, scrollTop \in ScrollPositions :
        /\ scrollLeft <= scrollWidth
        /\ scrollTop <= scrollHeight
        /\ Commit(onScroll([Bundle EXCEPT !.s = [scrollTop |-> scrollTop,
                                                 scrollLeft |-> scrollLeft,
                                                 scrollWidth |-> scrollWidth,
                                                 scrollHeight |-> scrollHeight]], opts),
                  opts, Did("scroll"))

(***************************************************************************)
(* Mouse wheel.                                                            *)
(***************************************************************************)
\* the deltas onMouseWheel scrolls by, before SCROLL_WHEEL_SENSITIVITY
wheelDeltas(o, mac, eDeltaX, eDeltaY) ==
    LET y0 == eDeltaY * o.mouseWheelScrollSensitivity
        x0 == eDeltaX * o.mouseWheelScrollSensitivity
        y1 == IF o.flipAxes THEN eDeltaX ELSE y0
        x1 == IF o.flipAxes THEN eDeltaY ELSE x0
        \* |deltaX| < 0.2 holds of an integer only when it is 0 already
        x2 == IF mac /\ 2 * Abs(y1) > Abs(x1) THEN 0 ELSE x1
    IN  [deltaX |-> x2, deltaY |-> y1]

onMouseWheel(st, o, mac, eDeltaX, eDeltaY) ==
    IF eDeltaY = 0 /\ eDeltaX = 0 THEN st
    ELSE
    LET d == wheelDeltas(o, mac, eDeltaX, eDeltaY)
        currentScrollTop == st.s.scrollTop
        top0 == IF d.deltaY # 0
                THEN validateScrollPosition(st.v, currentScrollTop - SCROLL_WHEEL_SENSITIVITY * d.deltaY)
                ELSE -1
        desiredScrollTop == IF d.deltaY # 0 /\ top0 = currentScrollTop THEN -1 ELSE top0
        currentScrollLeft == st.s.scrollLeft
        left0 == IF d.deltaX # 0
                 THEN validateScrollPosition(st.h, currentScrollLeft - SCROLL_WHEEL_SENSITIVITY * d.deltaX)
                 ELSE -1
        desiredScrollLeft == IF d.deltaX # 0 /\ left0 = currentScrollLeft THEN -1 ELSE left0
        r1 == IF desiredScrollTop # -1 THEN setDesiredScrollTop(st, desiredScrollTop)
              ELSE [st |-> st, changed |-> FALSE]
        s1 == IF desiredScrollTop # -1
              THEN [r1.st EXCEPT !.e.shouldRender = r1.changed \/ st.e.shouldRender]
              ELSE st
        r2 == IF desiredScrollLeft # -1 THEN setDesiredScrollLeft(s1, desiredScrollLeft)
              ELSE [st |-> s1, changed |-> FALSE]
    IN  IF desiredScrollLeft # -1
        THEN [r2.st EXCEPT !.e.shouldRender = r2.changed \/ s1.e.shouldRender]
        ELSE s1

\* a wheel event on the listening node
OnMouseWheel ==
    /\ elem.mouseWheelToDispose > 0
    /\ \E eDeltaX \in WheelDeltas, eDeltaY \in WheelDeltas :
         Commit(onMouseWheel(Bundle, opts, isMac, eDeltaX, eDeltaY), opts,
                [Did("mouseWheel") EXCEPT !.deltaX = eDeltaX, !.deltaY = eDeltaY])

(***************************************************************************)
(* renderNow and updateOptions.                                            *)
(***************************************************************************)
renderNowUnchecked(st, o) == [st |-> elementRender(st, o), threw |-> FALSE]

renderNow(st, o) ==
    IF ~o.lazyRender THEN [st |-> st, threw |-> TRUE]
    ELSE [st |-> elementRender(st, o), threw |-> FALSE]

RenderNow ==
    LET r == renderNow(Bundle, opts)
    IN  Commit(r.st, opts, Did(IF r.threw THEN "renderNowThrew" ELSE "renderNow"))

updateOptions(st, o, newOptions) ==
    LET massagedOptions == createOptions(newOptions)
        o1 == [o EXCEPT !.handleMouseWheel = massagedOptions.handleMouseWheel,
                        !.mouseWheelScrollSensitivity = massagedOptions.mouseWheelScrollSensitivity]
    IN  [o |-> o1,
         st |-> [st EXCEPT !.e.mouseWheelToDispose =
                    setListeningToMouseWheel(st.e.mouseWheelToDispose, o1.handleMouseWheel)]]

NewOptions ==
    { a @@ b : a \in Optional("handleMouseWheel", BOOLEAN),
              b \in Optional("mouseWheelScrollSensitivity", {MaxSensitivity}) }

UpdateOptions ==
    \E newOptions \in NewOptions :
        LET r == updateOptions(Bundle, opts, newOptions)
        IN  Commit(r.st, r.o, [Did("updateOptions") EXCEPT !.options = newOptions])

NextScroll ==
    \/ OnMouseOver
    \/ OnMouseOut
    \/ OnDragStart
    \/ OnDragEnd
    \/ OnDragMove
    \/ HideTimeout
    \/ RevealTimer
    \/ OnElementDimensions
    \/ DimensionsTimeout
    \/ OnScroll
    \/ OnMouseWheel
    \/ RenderNow
    \/ UpdateOptions

SpecScroll == InitScroll /\ [][NextScroll]_vars

(***************************************************************************)
(* Properties of the scrollable element.                                   *)
(***************************************************************************)
Scrollbars == {vsb, hsb}

\* what the DOM shows of a scrollbar: geometry, slider, visibility class
ScrollbarDom(sb) ==
    <<sb.domLargeSize, sb.domSmallSize, sb.sliderSize, sb.sliderPosition,
      sb.sliderActive, sb.className>>

ElementDom ==
    <<ScrollbarDom(vsb), ScrollbarDom(hsb),
      elem.leftShadow, elem.topShadow, elem.topLeftShadow>>

\* C2: with lazyRender, no handler other than renderNow changes the scrollbars'
\* geometry, the slider, the shadow classes or the visibility class.
C2_LazyRenderMutatesOnlyInRenderNow ==
    [][(opts.lazyRender /\ op'.name # "renderNow") => ElementDom' = ElementDom]_vars

\* C3: a scrollbar whose visibility is 'hidden' is never visible: its flag is
\* false, no reveal is pending and its class is never the visible class.
C3_HiddenNeverVisible ==
    \A sb \in Scrollbars :
        sb.visibility = "Hidden" =>
            /\ ~sb.isVisible
            /\ ~sb.shouldBeVisible
            /\ ~sb.revealTimer
            /\ sb.className # "visible"

\* a hidden, needed scrollbar with the mouse over it and a drag in progress
C3_Witness ==
    /\ vsb.visibility = "Hidden"
    /\ computedIsNeeded(vsb)
    /\ elem.mouseIsOver
    /\ elem.isDragging

C5_AutoShownWhileOverOrDragging ==
    \A sb \in Scrollbars :
        (sb.visibility = "Auto" /\ computedIsNeeded(sb)
            /\ (elem.mouseIsOver \/ elem.isDragging)) =>
            /\ sb.isVisible
            /\ sb.revealTimer \/ sb.className = "visible"

\* the hide timeout has fired while the mouse is over a needed 'auto' scrollbar
C5_Witness ==
    /\ vsb.visibility = "Auto"
    /\ computedIsNeeded(vsb)
    /\ elem.mouseIsOver
    /\ ~elem.isDragging
    /\ op.name = "hideTimeout"
    /\ vsb.className = "visible"

\* the deltas a wheel event scrolls by when the sensitivity multiplies both
\* of the event's deltas, whatever the other options are
sensitiveWheelDeltas(o, mac, eDeltaX, eDeltaY) ==
    LET y0 == eDeltaY * o.mouseWheelScrollSensitivity
        x0 == eDeltaX * o.mouseWheelScrollSensitivity
        y1 == IF o.flipAxes THEN x0 ELSE y0
        x1 == IF o.flipAxes THEN y0 ELSE x0
        x2 == IF mac /\ 2 * Abs(y1) > Abs(x1) THEN 0 ELSE x1
    IN  [deltaX |-> x2, deltaY |-> y1]

\* C6: every wheel event scrolls to validateScrollPosition(current - 50 * delta
\* * mouseWheelScrollSensitivity), on both axes and whatever the other options.
C6_WheelScrollsBySensitivity ==
    [][op'.name = "mouseWheel" =>
        LET d == sensitiveWheelDeltas(opts, isMac, op'.deltaX, op'.deltaY)
        IN  /\ scrollable'.scrollTop =
                 IF d.deltaY = 0 THEN scrollable.scrollTop
                 ELSE scrollableSet(scrollable.scrollHeight,
                        validateScrollPosition(vsb,
                            scrollable.scrollTop - SCROLL_WHEEL_SENSITIVITY * d.deltaY))
            /\ scrollable'.scrollLeft =
                 IF d.deltaX = 0 THEN scrollable.scrollLeft
                 ELSE scrollableSet(scrollable.scrollWidth,
                        validateScrollPosition(hsb,
                            scrollable.scrollLeft - SCROLL_WHEEL_SENSITIVITY * d.deltaX))
      ]_vars

\* C7: renderNow throws exactly when lazyRender is false, and then changes
\* nothing; with lazyRender it clears the pending-render flag and, when a
\* render was pending, renders both scrollbars and the shadows.
C7_RenderNowNeedsLazyRender ==
    [][/\ op'.name = "renderNowThrew" =>
            /\ ~opts.lazyRender
            /\ UNCHANGED <<opts, scrollable, vsb, hsb, elem>>
       /\ op'.name = "renderNow" =>
            /\ opts.lazyRender
            /\ ~elem'.shouldRender
            /\ UNCHANGED <<opts, scrollable>>
            /\ elem.shouldRender =>
                 /\ \A b \in {<<vsb, vsb'>>, <<hsb, hsb'>>} :
                      /\ ~b[2].shouldRender
                      /\ b[1].shouldRender =>
                           /\ b[2].domLargeSize = Max(0, b[1].visibleSize - b[1].oppositeScrollbarSize)
                           /\ b[2].domSmallSize = b[1].scrollbarSize
                           /\ b[2].sliderSize >= 0
                 /\ opts.useShadows =>
                      /\ (elem'.topShadow = "shadow top") <=> (scrollable.scrollTop > 0)
                      /\ (elem'.leftShadow = "shadow left") <=> (scrollable.scrollLeft > 0)
      ]_vars

\* renderNow has thrown while a render was pending
C7_Witness ==
    /\ op.name = "renderNowThrew"
    /\ ~opts.lazyRender
    /\ elem.shouldRender

\* C8: the wheel listeners are registered as a pair or not at all, they are
\* registered exactly when handleMouseWheel holds in the options, and that is
\* the value of the most recent updateOptions call (true when omitted).
C8_WheelListenersFollowOptions ==
    /\ [](/\ elem.mouseWheelToDispose \in {0, 2}
          /\ (elem.mouseWheelToDispose = 2) <=> opts.handleMouseWheel
          /\ op.name = "updateOptions" =>
                opts.handleMouseWheel = IF "handleMouseWheel" \in DOMAIN op.options
                                        THEN op.options["handleMouseWheel"]
                                        ELSE TRUE)
    /\ [][opts'.handleMouseWheel # opts.handleMouseWheel => op'.name = "updateOptions"]_vars

\* updateOptions without handleMouseWheel, after two earlier calls, left the
\* element listening
C8_Witness ==
    /\ op.name = "updateOptions"
    /\ "handleMouseWheel" \notin DOMAIN op.options
    /\ elem.mouseWheelToDispose = 2
    /\ steps = MaxSteps

(***************************************************************************)
(* The scrollable element at rest, while another piece runs.               *)
(***************************************************************************)
ScrollAtRest ==
    LET st == Construct(NoKeys, InitialScrollable, SizeUnit, SizeUnit)
    IN  /\ opts = createOptions(NoKeys)
        /\ isMac = FALSE
        /\ scrollable = st.s
        /\ vsb = st.v
        /\ hsb = st.h
        /\ elem = st.e
        /\ op = NoOp
        /\ steps = 0

(***************************************************************************)
(* objects.mixin(destination, source) with overwrite, on objects whose     *)
(* values are not objects themselves: the keys of the source replace or    *)
(* extend those of the destination.                                        *)
(***************************************************************************)
mixin(destination, source) ==
    [k \in DOMAIN destination \cup DOMAIN source |->
        IF k \in DOMAIN source THEN source[k] ELSE destination[k]]

(***************************************************************************)
(* CommonEditorConfiguration: the wrapping info of the internal options.   *)
(* A raw option value is [nan, int]: what parseInt(value, 10) makes of it, *)
(* NaN for a value that does not start with a number.                      *)
(***************************************************************************)
\* the largest wrapping column drawn
MaxColumn == 2
\* the largest content width drawn, in units of the widest character drawn
MaxWidthUnits == 2
\* the largest line count drawn
MaxLineCount == 2

NotANumber == [nan |-> TRUE, int |-> 0]
Number(i) == [nan |-> FALSE, int |-> i]
RawColumns == {NotANumber} \cup {Number(i) : i \in (0 - MaxColumn - 1) .. MaxColumn}
CharacterWidths == {1, MaxWidthUnits}
ContentWidths == {0, 1, MaxWidthUnits * MaxWidthUnits}
VerticalScrollbarWidths == {0, MaxWidthUnits}

toInteger(source, hasMinimum, minimum) ==
    LET r0 == IF source.nan THEN 0 ELSE source.int
    IN  IF hasMinimum THEN Max(minimum, r0) ELSE r0

\* as createInternalEditorOptions, but a model dominated by long lines
\* forces viewport wrapping whatever the wrapping column is
createInternalEditorOptionsAlwaysForced(o, layoutInfo, themeOpts, isDominatedByLongLines) ==
    [wrappingInfo |->
        IF isDominatedByLongLines \/ toInteger(o["wrappingColumn"], TRUE, -1) = 0
        THEN [isViewportWrapping |-> TRUE,
              wrappingColumn |-> Max(1, (layoutInfo.contentWidth - layoutInfo.verticalScrollbarWidth)
                                          \div themeOpts.typicalHalfwidthCharacterWidth)]
        ELSE IF toInteger(o["wrappingColumn"], TRUE, -1) > 0
        THEN [isViewportWrapping |-> FALSE,
              wrappingColumn |-> toInteger(o["wrappingColumn"], TRUE, -1)]
        ELSE [isViewportWrapping |-> FALSE, wrappingColumn |-> -1]]

\* createInternalEditorOptions, its wrappingInfo; Math.floor of the ratio
\* is the integer quotient, the character width being positive
createInternalEditorOptions(o, layoutInfo, themeOpts, isDominatedByLongLines) ==
    LET wrappingColumn0 == toInteger(o["wrappingColumn"], TRUE, -1)
        wrappingColumn == IF isDominatedByLongLines /\ wrappingColumn0 > 0
                          THEN 0 ELSE wrappingColumn0
    IN  [wrappingInfo |->
            IF wrappingColumn = 0
            THEN [isViewportWrapping |-> TRUE,
                  wrappingColumn |-> Max(1, (layoutInfo.contentWidth - layoutInfo.verticalScrollbarWidth)
                                              \div themeOpts.typicalHalfwidthCharacterWidth)]
            ELSE IF wrappingColumn > 0
            THEN [isViewportWrapping |-> FALSE, wrappingColumn |-> wrappingColumn]
            ELSE [isViewportWrapping |-> FALSE, wrappingColumn |-> -1]]

\* the layout and the measured font the environment reports to a recomputation
Layouts ==
    [contentWidth : ContentWidths, verticalScrollbarWidth : VerticalScrollbarWidths]
Themes == [typicalHalfwidthCharacterWidth : CharacterWidths]

\* _computeInternalOptions, with the layout and font read at that moment
computeInternalOptions(w, layoutInfo, themeOpts) ==
    [w EXCEPT !.layoutInfo = layoutInfo,
              !.themeOpts = themeOpts,
              !.editor = createInternalEditorOptions(w.options, layoutInfo, themeOpts,
                                                     w.isDominatedByLongLines)]

NewConfiguration(options) ==
    [phase |-> "ready",
     options |-> options,
     isDominatedByLongLines |-> FALSE,
     lineCount |-> 1,
     layoutInfo |-> [contentWidth |-> 0, verticalScrollbarWidth |-> 0],
     themeOpts |-> [typicalHalfwidthCharacterWidth |-> 1],
     editor |-> [wrappingInfo |-> [isViewportWrapping |-> FALSE, wrappingColumn |-> -1]],
     last |-> "constructor"]

InitWrap ==
    /\ ScrollAtRest
    /\ \E raw \in RawColumns, layoutInfo \in Layouts, themeOpts \in Themes :
         wrap = computeInternalOptions(NewConfiguration("wrappingColumn" :> raw),
                                       layoutInfo, themeOpts)
    /\ apply = ApplyIdle
    /\ svc = SvcIdle

WrapUpdateOptions ==
    /\ \E newOptions \in Optional("wrappingColumn", RawColumns),
          layoutInfo \in Layouts, themeOpts \in Themes :
         wrap' = computeInternalOptions(
                    [wrap EXCEPT !.options = mixin(wrap.options, newOptions),
                                 !.last = "updateOptions"],
                    layoutInfo, themeOpts)
    /\ UNCHANGED <<scrollVars, apply, svc>>

SetIsDominatedByLongLines ==
    /\ \E isDominatedByLongLines \in BOOLEAN, layoutInfo \in Layouts, themeOpts \in Themes :
         wrap' = computeInternalOptions(
                    [wrap EXCEPT !.isDominatedByLongLines = isDominatedByLongLines,
                                 !.last = "setIsDominatedByLongLines"],
                    layoutInfo, themeOpts)
    /\ UNCHANGED <<scrollVars, apply, svc>>

SetLineCount ==
    /\ \E lineCount \in 1 .. MaxLineCount, layoutInfo \in Layouts, themeOpts \in Themes :
         wrap' = computeInternalOptions(
                    [wrap EXCEPT !.lineCount = lineCount, !.last = "setLineCount"],
                    layoutInfo, themeOpts)
    /\ UNCHANGED <<scrollVars, apply, svc>>

NextWrap ==
    \/ WrapUpdateOptions
    \/ SetIsDominatedByLongLines
    \/ SetLineCount

SpecWrap == InitWrap /\ [][NextWrap]_vars

\* C9: the wrappingColumn option decides the wrapping info: 0 wraps at the
\* viewport width, in a column of at least 1; -1 never wraps, whatever
\* isDominatedByLongLines and the line count are; a positive n wraps at n,
\* unless the model is dominated by long lines, which wraps at the viewport.
C9_WrappingColumnDecidesWrappingInfo ==
    LET raw == wrap.options["wrappingColumn"]
        info == wrap.editor.wrappingInfo
        viewport == info.isViewportWrapping /\ info.wrappingColumn >= 1
    IN  ~raw.nan =>
          /\ raw.int = 0 => viewport
          /\ raw.int = -1 => info = [isViewportWrapping |-> FALSE, wrappingColumn |-> -1]
          /\ (raw.int > 0 /\ ~wrap.isDominatedByLongLines) =>
                info = [isViewportWrapping |-> FALSE, wrappingColumn |-> raw.int]
          /\ (raw.int > 0 /\ wrap.isDominatedByLongLines) => viewport

\* the column is -1, the model is dominated by long lines and has more than
\* one line, and the editor does not wrap
C9_Witness ==
    /\ wrap.options["wrappingColumn"] = Number(-1)
    /\ wrap.isDominatedByLongLines
    /\ wrap.lineCount > 1
    /\ wrap.last = "setIsDominatedByLongLines"
    /\ ~wrap.editor.wrappingInfo.isViewportWrapping

(***************************************************************************)
(* EditorConfiguration.apply.  A configuration is null or an object with   *)
(* an optional 'editor' and an optional 'diffEditor' section; a section is *)
(* an object from option names to values.  An editor of the list is null,  *)
(* an object without an updateOptions function, or an editor of some type. *)
(***************************************************************************)
\* the longest list of editors drawn
MaxEditors == 2
\* the number of calls of apply with the same configuration object
MaxRounds == 2

OptionKeys == {"readOnly", "renderSideBySide"}
Absent == [present |-> FALSE, value |-> NoKeys]
Section(value) == [present |-> TRUE, value |-> value]
\* the sections drawn: the values tell the section an option came from
Sections(tag) == {Absent} \cup {Section([k \in keys |-> tag]) : keys \in SUBSET OptionKeys}
NullConfig == [isNull |-> TRUE, editor |-> Absent, diffEditor |-> Absent]
Configs ==
    {NullConfig} \cup
    {[isNull |-> FALSE, editor |-> e, diffEditor |-> d] :
        e \in Sections("editor"), d \in Sections("diffEditor")}
EditorKinds == {"null", "noUpdateOptions", "ICodeEditor", "IDiffEditor", "other"}
EditorLists == UNION {[1 .. n -> EditorKinds] : n \in 0 .. MaxEditors}

\* delete editorConfig.readOnly
deleteReadOnly(editorConfig) ==
    [k \in DOMAIN editorConfig \ {"readOnly"} |-> editorConfig[k]]

\* as applyToEditor, without the delete
applyToEditorKeepingReadOnly(a, i) ==
    LET kind == a.editors[i]
        call(value) == Append(a.calls, [editor |-> i, options |-> value])
    IN  IF kind \in {"null", "noUpdateOptions", "other"} THEN a
        ELSE IF kind = "IDiffEditor" /\ a.config.diffEditor.present
        THEN IF ~a.config.editor.present
             THEN [a EXCEPT !.calls = call(a.config.diffEditor.value)]
             ELSE LET mixed == mixin(a.config.editor.value, a.config.diffEditor.value)
                  IN  [a EXCEPT !.config.editor.value = mixed, !.calls = call(mixed)]
        ELSE IF a.config.editor.present
        THEN [a EXCEPT !.calls = call(a.config.editor.value)]
        ELSE a

\* one round of the loop of apply, for editors[i]: the sections are objects
\* of the configuration, so what mixin and delete do to them stays done
applyToEditor(a, i) ==
    LET kind == a.editors[i]
        call(value) == Append(a.calls, [editor |-> i, options |-> value])
    IN  IF kind \in {"null", "noUpdateOptions"} THEN a
        ELSE IF kind \notin {"ICodeEditor", "IDiffEditor"} THEN a
        ELSE IF kind = "IDiffEditor" /\ a.config.diffEditor.present
        THEN IF ~a.config.editor.present
             THEN LET editorConfig == deleteReadOnly(a.config.diffEditor.value)
                  IN  [a EXCEPT !.config.diffEditor.value = editorConfig,
                                !.calls = call(editorConfig)]
             ELSE LET editorConfig ==
                        deleteReadOnly(mixin(a.config.editor.value, a.config.diffEditor.value))
                  IN  [a EXCEPT !.config.editor.value = editorConfig,
                                !.calls = call(editorConfig)]
        ELSE IF a.config.editor.present
        THEN LET editorConfig == deleteReadOnly(a.config.editor.value)
             IN  [a EXCEPT !.config.editor.value = editorConfig,
                           !.calls = call(editorConfig)]
        ELSE a

RECURSIVE applyFrom(_, _)
applyFrom(a, i) ==
    IF i > Len(a.editors) THEN a ELSE applyFrom(applyToEditor(a, i), i + 1)

\* EditorConfiguration.apply(config, editors): the configuration as the call
\* leaves it and the updateOptions calls it made, in order
applyConfig(config, given, editors) ==
    LET a0 == [phase |-> "applied", round |-> 1, given |-> given, config |-> config,
               editors |-> editors, calls |-> << >>]
    IN  IF config.isNull THEN a0 ELSE applyFrom(a0, 1)

InitApply ==
    /\ ScrollAtRest
    /\ wrap = WrapIdle
    /\ apply = [phase |-> "idle", round |-> 0, given |-> NullConfig, config |-> NullConfig,
                editors |-> << >>, calls |-> << >>]
    /\ svc = SvcIdle

\* apply with an array of editors
ApplyToEditors ==
    /\ apply.round = 0
    /\ \E config \in Configs, editors \in EditorLists :
         apply' = applyConfig(config, config, editors)
    /\ UNCHANGED <<scrollVars, wrap, svc>>

\* apply with one editor, or with none: [editorOrArray]
ApplyToEditor ==
    /\ apply.round = 0
    /\ \E config \in Configs, editor \in EditorKinds :
         apply' = [applyConfig(config, config, <<editor>>) EXCEPT !.phase = "appliedToOne"]
    /\ UNCHANGED <<scrollVars, wrap, svc>>

\* apply again with the configuration object the last call left behind
ApplyAgain ==
    /\ apply.round > 0
    /\ apply.round < MaxRounds
    /\ \E editors \in EditorLists :
         apply' = [applyConfig(apply.config, apply.given, editors)
                     EXCEPT !.phase = "appliedAgain", !.round = apply.round + 1]
    /\ UNCHANGED <<scrollVars, wrap, svc>>

NextApply ==
    \/ ApplyToEditors
    \/ ApplyToEditor
    \/ ApplyAgain

SpecApply == InitApply /\ [][NextApply]_vars

\* C10: no updateOptions call of apply carries a readOnly key, the editors
\* updated are code editors and diff editors, each at most once and in the
\* order of the list, and no editor of another type is updated.
C10_ApplyNeverPassesReadOnly ==
    /\ \A c \in 1 .. Len(apply.calls) :
         /\ "readOnly" \notin DOMAIN apply.calls[c].options
         /\ apply.editors[apply.calls[c].editor] \in {"ICodeEditor", "IDiffEditor"}
         /\ \A d \in 1 .. Len(apply.calls) :
              c < d => apply.calls[c].editor < apply.calls[d].editor
    /\ \A i \in 1 .. Len(apply.editors) :
         apply.editors[i] \notin {"ICodeEditor", "IDiffEditor"} =>
            \A c \in 1 .. Len(apply.calls) : apply.calls[c].editor # i

\* a diff editor was updated, after an editor of another type was passed
\* over, from a configuration with a diffEditor section only, which held a
\* readOnly key among others
C10_Witness ==
    /\ apply.phase = "applied"
    /\ ~apply.given.editor.present
    /\ apply.given.diffEditor.present
    /\ "readOnly" \in DOMAIN apply.given.diffEditor.value
    /\ apply.editors = <<"other", "IDiffEditor">>
    /\ Len(apply.calls) = 1
    /\ DOMAIN apply.calls[1].options = {"renderSideBySide"}

(***************************************************************************)
(* ConfigurationService.  A bulk fetch is the promise chain that           *)
(* loadWorkspaceConfiguration builds on resolveStat; a load is one call of *)
(* doLoadConfiguration waiting for the bulk fetch that was current when it *)
(* was called.  A promise that is complete calls its listeners at once, so *)
(* a handler runs on to the next promise that is still pending.            *)
(***************************************************************************)
\* the number of calls of initialize and loadConfiguration in a run
MaxLoads == 2
\* the number of different contents of the settings file
MaxContent == 2
\* the number of file change events handled in a run
MaxEvents == 1
\* the number of registrations at the configuration registry in a run
MaxRegistrations == 1
\* the largest number of changes in one file change event
MaxChanges == 2

SettingsPath == ".vscode/settings.json"
Contents == 1 .. MaxContent

\* the other workspace relative paths of file changes: the settings folder,
\* another json file in it, a file in it that is no json file, a json file
\* elsewhere in the workspace, and none for a resource outside the workspace
FolderPath == ".vscode"
OtherPath == ".vscode/launch.json"
TextPath == ".vscode/notes.txt"
ElsewherePath == "src/app.json"
NoPath == ""

\* paths.extname(workspacePath) === '.json'
extnameIsJson(workspacePath) == workspacePath \in {SettingsPath, OtherPath, ElsewherePath}

\* paths.isEqualOrParent(workspacePath, workspaceSettingsRootFolder)
isEqualOrParent(workspacePath) ==
    workspacePath \in {FolderPath, SettingsPath, OtherPath, TextPath}

\* model.getDefaultValues(): the registered defaults
getDefaultValues == [setting |-> 0, other |-> 0]

\* model.newConfigFile(value): the parsed content of a configuration file
newConfigFile(value) == [contents |-> [setting |-> value]]

\* what a promise of a configuration file holds after
\* errors.onUnexpectedError took the error of resolveContent
Undefined == [undefined |-> TRUE]

\* model.consolidate(values): the contents of the files, put together
consolidate(values) ==
    [contents |-> IF SettingsPath \in DOMAIN values
                     /\ "contents" \in DOMAIN values[SettingsPath]
                  THEN values[SettingsPath].contents ELSE NoKeys]

loadGlobalConfiguration == [contents |-> getDefaultValues]

EmptyConfig == [merged |-> NoKeys, consolidated |-> [contents |-> NoKeys],
                globals |-> [contents |-> NoKeys]]

\* the service after its constructor.  An entry of
\* workspaceFilePathToConfiguration is a configuration file (a promise that
\* was complete when it was put there) or [promise |-> f], the promise that
\* handleFileEvents made of the fetch fetches[f].  disk is the version of
\* the settings file that was written last.  The fields from events on
\* count what has happened, for the properties below.
NewService ==
    [phase |-> "ready",
     bulkFetchFromWorkspacePromise |-> 0,
     workspaceFilePathToConfiguration |-> NoKeys,
     chains |-> << >>,
     loads |-> << >>,
     cachedConfig |-> EmptyConfig,
     fetches |-> << >>,
     reloadConfigurationScheduler |-> [created |-> FALSE, scheduled |-> FALSE],
     disk |-> 1,
     events |-> 0,
     registrations |-> 0,
     updated |-> 0,
     reloads |-> 0,
     bursts |-> 0,
     asked |-> 0,
     unserved |-> FALSE,
     fresh |-> [set |-> FALSE, fetch |-> 0, reloaded |-> 0]]

\* the two then-handlers of doLoadConfiguration, on the joined values
loaded(globals, values) ==
    LET consolidated == consolidate(values)
    IN  [merged |-> mixin(globals.contents, consolidated.contents),
         consolidated |-> consolidated,
         globals |-> globals]

\* the fetches a map of promises still waits for
pendingIn(s, map) ==
    {map[path].promise : path \in {q \in DOMAIN map : "promise" \in DOMAIN map[q]
                                      /\ s.fetches[map[q].promise].state = "pending"}}

\* TPromise.join(map), all its promises being complete
joined(s, map) ==
    [path \in DOMAIN map |->
        IF "promise" \in DOMAIN map[path] THEN s.fetches[map[path].promise].file
        ELSE map[path]]

\* the loads whose join has nothing left to wait for go on: the result
\* becomes the cached configuration, and a reload emits UPDATED.  Loads that
\* go on together joined the same promises, so their order does not show.
RECURSIVE finishJoins(_)
finishJoins(s) ==
    LET ready == {l \in 1 .. Len(s.loads) :
                    s.loads[l].state = "joining" /\ pendingIn(s, s.loads[l].joined) = {}}
    IN  IF ready = {} THEN s
        ELSE LET l == CHOOSE m \in ready : \A n \in ready : m <= n
                 values == joined(s, s.loads[l].joined)
                 res == loaded(s.loads[l].globals, values)
             IN  finishJoins(
                    [s EXCEPT !.loads[l] = [@ EXCEPT !.state = "resolved",
                                                      !.joined = NoKeys,
                                                      !.values = values,
                                                      !.result = res],
                              !.cachedConfig = res,
                              !.updated = IF s.loads[l].kind = "reload" THEN @ + 1 ELSE @])

\* the bulk fetch c is complete: the loads that wait for it go on, in the
\* order in which they were started, each joining the promises of the map
\* the service holds at that moment
settleLoads(s, c) ==
    LET waiting == {l \in 1 .. Len(s.loads) :
                        s.loads[l].chain = c /\ s.loads[l].state = "pending"}
        fulfilled == s.chains[c].phase = "fulfilled"
    IN  finishJoins(
          [s EXCEPT !.loads = [l \in 1 .. Len(s.loads) |->
                                IF l \in waiting
                                THEN IF fulfilled
                                     THEN [s.loads[l] EXCEPT
                                             !.state = "joining",
                                             !.joined = s.workspaceFilePathToConfiguration]
                                     ELSE [s.loads[l] EXCEPT !.state = "rejected"]
                                ELSE s.loads[l]]])

\* loadWorkspaceConfiguration and the handlers doLoadConfiguration puts on it
doLoadConfiguration(s, kind) ==
    LET globals == loadGlobalConfiguration
        fresh == s.bulkFetchFromWorkspacePromise = 0
        c == IF fresh THEN Len(s.chains) + 1 ELSE s.bulkFetchFromWorkspacePromise
        s1 == IF fresh
              THEN [s EXCEPT !.chains = Append(@, [phase |-> "stat", stat |-> "none",
                                                   by |-> kind, low |-> 0]),
                             !.bulkFetchFromWorkspacePromise = c]
              ELSE s
        s2 == [s1 EXCEPT !.loads = Append(@, [kind |-> kind, chain |-> c, globals |-> globals,
                                               state |-> "pending", joined |-> NoKeys,
                                               values |-> NoKeys,
                                               result |-> EmptyConfig])]
    IN  IF s2.chains[c].phase \in {"fulfilled", "rejected"} THEN settleLoads(s2, c) ELSE s2

\* resolveStat rejects: the error handler returns [] for an error and
\* nothing for a value that is not truthy, on which contents.forEach throws
statRejected(s, c, err) ==
    IF err = "error"
    THEN settleLoads([s EXCEPT !.chains[c].phase = "fulfilled", !.chains[c].stat = err], c)
    ELSE settleLoads([s EXCEPT !.chains[c].phase = "rejected", !.chains[c].stat = err], c)

\* resolveStat resolves: a directory's json children are fetched by
\* resolveContents, anything else has no contents
statResolved(s, c, isDirectory) ==
    IF ~isDirectory
    THEN settleLoads([s EXCEPT !.chains[c].phase = "fulfilled", !.chains[c].stat = "file"], c)
    ELSE [s EXCEPT !.chains[c].phase = "contents", !.chains[c].stat = "directory",
                   !.chains[c].low = s.disk]

\* resolveContents resolves: each content becomes an entry of the map that
\* the service holds at that moment
contentsResolved(s, c, contents) ==
    LET s1 == [s EXCEPT !.workspaceFilePathToConfiguration =
                  mixin(@, [path \in DOMAIN contents |-> newConfigFile(contents[path])]),
                        !.chains[c].phase = "fulfilled"]
    IN  settleLoads(s1, c)

\* resolveContents rejects: errors.onUnexpectedError takes the error
contentsRejected(s, c) ==
    settleLoads([s EXCEPT !.chains[c].phase = "fulfilled"], c)

\* RunOnceScheduler.isScheduled(): the timeout is set
isScheduled(scheduler) == scheduler.scheduled

\* RunOnceScheduler.schedule(): the timeout is set, a set one is set anew
schedule(scheduler) == [scheduler EXCEPT !.scheduled = TRUE]

\* the scheduler is made on the first call, and scheduled unless it is already
handleConfigurationChange(s) ==
    LET scheduler == [s.reloadConfigurationScheduler EXCEPT !.created = TRUE]
    IN  IF ~isScheduled(scheduler)
        THEN [s EXCEPT !.reloadConfigurationScheduler = schedule(scheduler),
                       !.asked = @ + 1]
        ELSE [s EXCEPT !.reloadConfigurationScheduler = scheduler]

\* collections.remove(from, key): the map without the key, and whether it
\* was there
remove(from, key) ==
    [map |-> [path \in DOMAIN from \ {key} |-> from[path]], removed |-> key \in DOMAIN from]

FileChangeTypes == {"UPDATED", "ADDED", "DELETED"}

\* the changes of the settings file a file change event tells of
IsSettingsChange(event) == event.path = SettingsPath /\ event.type \in {"UPDATED", "ADDED"}

\* the changes that affect the configuration: a json file of the settings
\* folder that was added or updated, one the service holds that was deleted,
\* and the settings folder deleted
AffectsConfiguration(map, event) ==
    \/ event.path = FolderPath /\ event.type = "DELETED"
    \/ /\ extnameIsJson(event.path) /\ isEqualOrParent(event.path)
       /\ event.type = "DELETED" => event.path \in DOMAIN map

\* the bulk fetch of a loadConfiguration() that is still in flight
BulkInFlight(s) ==
    /\ s.bulkFetchFromWorkspacePromise # 0
    /\ s.chains[s.bulkFetchFromWorkspacePromise].by = "loadConfiguration"
    /\ s.chains[s.bulkFetchFromWorkspacePromise].phase \in {"stat", "contents"}

\* one turn of the loop of handleFileEvents, on the service and the flag
\* affectedByChanges
handleFileEvent(h, event) ==
    LET s == h.s
        told == [s EXCEPT !.unserved = @ \/ AffectsConfiguration(s.workspaceFilePathToConfiguration, event),
                          !.bursts = IF ~s.unserved /\ AffectsConfiguration(s.workspaceFilePathToConfiguration, event)
                                     THEN @ + 1 ELSE @]
        folderGone == event.path = FolderPath /\ event.type = "DELETED"
        s1 == IF folderGone
              THEN [told EXCEPT !.workspaceFilePathToConfiguration = NoKeys,
                                !.fresh.set = FALSE]
              ELSE told
        affected1 == h.affectedByChanges \/ folderGone
        removal == remove(s1.workspaceFilePathToConfiguration, event.path)
        f == Len(s1.fetches) + 1
    IN  IF event.path = NoPath THEN [s |-> told, affectedByChanges |-> h.affectedByChanges]
        ELSE IF ~extnameIsJson(event.path) \/ ~isEqualOrParent(event.path)
        THEN [s |-> s1, affectedByChanges |-> affected1]
        ELSE IF event.type = "DELETED"
        THEN [s |-> [s1 EXCEPT !.workspaceFilePathToConfiguration = removal.map,
                               !.fresh.set = IF event.path = SettingsPath THEN FALSE ELSE @],
              affectedByChanges |-> removal.removed]
        ELSE [s |-> [s1 EXCEPT !.fetches = Append(@, [state |-> "pending", low |-> s1.disk,
                                                     path |-> event.path, file |-> Undefined]),
                               !.workspaceFilePathToConfiguration =
                                   mixin(@, event.path :> [promise |-> f]),
                               !.fresh = IF event.path # SettingsPath THEN @
                                         ELSE [set |-> BulkInFlight(s1), fetch |-> f,
                                               reloaded |-> 0]],
              affectedByChanges |-> TRUE]

RECURSIVE handleFileEventsFrom(_, _, _)
handleFileEventsFrom(h, changes, i) ==
    IF i > Len(changes) THEN h
    ELSE handleFileEventsFrom(handleFileEvent(h, changes[i]), changes, i + 1)

\* handleFileEvents(event): the loop over the changes, and the reload asked
\* for if the flag is set after it
handleFileEvents(s, changes) ==
    LET h == handleFileEventsFrom([s |-> s, affectedByChanges |-> FALSE], changes, 1)
    IN  IF h.affectedByChanges THEN handleConfigurationChange(h.s) ELSE h.s

\* the runner of the scheduler: the timeout is no longer set, the
\* configuration is loaded, and UPDATED is emitted when the load resolves
reload(s) ==
    doLoadConfiguration(
        [s EXCEPT !.reloadConfigurationScheduler.scheduled = FALSE,
                  !.reloads = @ + 1,
                  !.unserved = FALSE,
                  !.fresh.reloaded = IF s.fresh.set THEN Len(s.loads) + 1 ELSE 0], "reload")

\* resolveContent of a changed file resolves: the file is parsed
fetchResolved(s, f, value) ==
    finishJoins([s EXCEPT !.fetches[f].state = "done",
                          !.fetches[f].file = newConfigFile(value)])

\* resolveContent of a changed file rejects: errors.onUnexpectedError
fetchRejected(s, f) ==
    finishJoins([s EXCEPT !.fetches[f].state = "done", !.fetches[f].file = Undefined])

\* the changes one file change event may hold
Changes ==
    {[type |-> "UPDATED", path |-> SettingsPath],
     [type |-> "ADDED", path |-> SettingsPath],
     [type |-> "DELETED", path |-> SettingsPath],
     [type |-> "DELETED", path |-> OtherPath],
     [type |-> "DELETED", path |-> FolderPath],
     [type |-> "UPDATED", path |-> TextPath],
     [type |-> "UPDATED", path |-> ElsewherePath],
     [type |-> "UPDATED", path |-> NoPath]}

ChangeLists == UNION {[1 .. n -> Changes] : n \in 1 .. MaxChanges}

\* the loads that initialize() and loadConfiguration() started
CalledLoads == {l \in 1 .. Len(svc.loads) : svc.loads[l].kind # "reload"}

InitConfig ==
    /\ ScrollAtRest
    /\ wrap = WrapIdle
    /\ apply = ApplyIdle
    /\ svc = NewService

Initialize ==
    /\ Cardinality(CalledLoads) < MaxLoads
    /\ svc' = doLoadConfiguration(svc, "initialize")
    /\ UNCHANGED <<scrollVars, wrap, apply>>

LoadConfiguration ==
    /\ Cardinality(CalledLoads) < MaxLoads
    /\ svc' = doLoadConfiguration(
                 [svc EXCEPT !.bulkFetchFromWorkspacePromise = 0,
                             !.workspaceFilePathToConfiguration = NoKeys,
                             !.fresh.set = FALSE],
                 "loadConfiguration")
    /\ UNCHANGED <<scrollVars, wrap, apply>>

StatResolves ==
    /\ \E c \in 1 .. Len(svc.chains), isDirectory \in BOOLEAN :
         /\ svc.chains[c].phase = "stat"
         /\ svc' = statResolved(svc, c, isDirectory)
    /\ UNCHANGED <<scrollVars, wrap, apply>>

StatRejects ==
    /\ \E c \in 1 .. Len(svc.chains), err \in {"error", "nothing"} :
         /\ svc.chains[c].phase = "stat"
         /\ svc' = statRejected(svc, c, err)
    /\ UNCHANGED <<scrollVars, wrap, apply>>

\* the content that resolveContents read is one the file had since the
\* fetch was started
ContentsResolve ==
    /\ \E c \in 1 .. Len(svc.chains) :
         /\ svc.chains[c].phase = "contents"
         /\ \E contents \in {NoKeys} \cup
                            {SettingsPath :> v : v \in svc.chains[c].low .. svc.disk} :
              svc' = contentsResolved(svc, c, contents)
    /\ UNCHANGED <<scrollVars, wrap, apply>>

ContentsReject ==
    /\ \E c \in 1 .. Len(svc.chains) :
         /\ svc.chains[c].phase = "contents"
         /\ svc' = contentsRejected(svc, c)
    /\ UNCHANGED <<scrollVars, wrap, apply>>

\* the file service tells of changes; the settings file has a new content
\* when it is among them
FileEvents ==
    /\ svc.events < MaxEvents
    /\ \E changes \in ChangeLists :
         LET written == \E i \in 1 .. Len(changes) : IsSettingsChange(changes[i])
             disk == IF written /\ svc.disk < MaxContent THEN svc.disk + 1 ELSE svc.disk
         IN  svc' = handleFileEvents([svc EXCEPT !.disk = disk, !.events = @ + 1], changes)
    /\ UNCHANGED <<scrollVars, wrap, apply>>

\* the configuration registry tells of a registration
RegisterConfiguration ==
    /\ svc.registrations < MaxRegistrations
    /\ svc' = handleConfigurationChange(
                 [svc EXCEPT !.registrations = @ + 1,
                             !.unserved = TRUE,
                             !.bursts = IF svc.unserved THEN @ ELSE @ + 1])
    /\ UNCHANGED <<scrollVars, wrap, apply>>

\* the timeout of the scheduler runs out
TimerFires ==
    /\ isScheduled(svc.reloadConfigurationScheduler)
    /\ svc' = reload(svc)
    /\ UNCHANGED <<scrollVars, wrap, apply>>

\* the content that resolveContent read is one the file had since the
\* change was handled
FetchResolves ==
    /\ \E f \in 1 .. Len(svc.fetches) :
         /\ svc.fetches[f].state = "pending"
         /\ \E value \in svc.fetches[f].low .. svc.disk :
              svc' = fetchResolved(svc, f, value)
    /\ UNCHANGED <<scrollVars, wrap, apply>>

FetchRejects ==
    /\ \E f \in 1 .. Len(svc.fetches) :
         /\ svc.fetches[f].state = "pending"
         /\ svc' = fetchRejected(svc, f)
    /\ UNCHANGED <<scrollVars, wrap, apply>>

NextConfig ==
    \/ Initialize
    \/ LoadConfiguration
    \/ StatResolves
    \/ StatRejects
    \/ ContentsResolve
    \/ ContentsReject
    \/ FileEvents
    \/ RegisterConfiguration
    \/ TimerFires
    \/ FetchResolves
    \/ FetchRejects

SpecConfig == InitConfig /\ [][NextConfig]_vars

\* the loads whose bulk fetch found the settings folder missing: resolveStat
\* rejected with an error, or resolved with something that is no directory,
\* and no change of a file in it has been told of since
LoadsWithoutFolder ==
    {l \in 1 .. Len(svc.loads) : /\ svc.chains[svc.loads[l].chain].stat \in {"error", "file"}
                                 /\ svc.fetches = << >>}

\* C1: a load whose resolveStat rejects with an error, or finds no directory,
\* resolves all the same, with an empty workspace contribution and a merged
\* configuration equal to the global/default values.
C1_MissingFolderLoadsDefaults ==
    \A l \in LoadsWithoutFolder :
        /\ svc.loads[l].state = "resolved"
        /\ svc.loads[l].values = NoKeys
        /\ svc.loads[l].result.consolidated.contents = NoKeys
        /\ svc.loads[l].result.merged = getDefaultValues

\* what holds instead: C1 of the loads whose map no other bulk fetch, one that
\* found a directory, can have written into
C1_AloneLoadsDefaults ==
    \A l \in LoadsWithoutFolder :
        (\A c \in 1 .. Len(svc.chains) : c # svc.loads[l].chain => svc.chains[c].stat # "directory")
        => /\ svc.loads[l].state = "resolved"
           /\ svc.loads[l].values = NoKeys
           /\ svc.loads[l].result.consolidated.contents = NoKeys
           /\ svc.loads[l].result.merged = getDefaultValues

\* nothing is in flight: every bulk fetch and every fetch of a changed file
\* is complete, no load waits, and no reload is scheduled
Settled ==
    /\ \A c \in 1 .. Len(svc.chains) : svc.chains[c].phase \in {"fulfilled", "rejected"}
    /\ \A f \in 1 .. Len(svc.fetches) : svc.fetches[f].state = "done"
    /\ \A l \in 1 .. Len(svc.loads) : svc.loads[l].state \in {"resolved", "rejected"}
    /\ ~isScheduled(svc.reloadConfigurationScheduler)

\* the last change of the settings file was handled while the bulk fetch of
\* loadConfiguration() was in flight, its content was fetched, and the reload
\* scheduled for it has run and resolved
EventDuringBulkReloaded ==
    /\ svc.fresh.set
    /\ svc.fresh.reloaded # 0
    /\ svc.loads[svc.fresh.reloaded].state = "resolved"
    /\ "contents" \in DOMAIN svc.fetches[svc.fresh.fetch].file

\* C11: when an ADDED/UPDATED change of a settings file was handled while the
\* bulk fetch of loadConfiguration() was in flight, then, once everything has
\* settled and the scheduled reload has run, the cached configuration holds
\* the content fetched for the change, not an older one of the bulk fetch.
C11_EventContentNotLost ==
    (Settled /\ EventDuringBulkReloaded)
    => svc.cachedConfig.consolidated.contents = svc.fetches[svc.fresh.fetch].file.contents

\* C12: configuration changes are coalesced: every change handled since the
\* last reload started has a reload scheduled, there are no more reloads than
\* groups of changes, and once everything has settled one UPDATED event has
\* been emitted for each group.
C12_ChangesCoalesced ==
    /\ svc.unserved => isScheduled(svc.reloadConfigurationScheduler)
    /\ svc.reloads <= svc.bursts
    /\ Settled => svc.updated = svc.bursts

\* what holds instead: the calls of handleConfigurationChange() are
\* coalesced, one reload for the calls made while one is scheduled
C12_CallsCoalesced ==
    /\ svc.reloads <= svc.asked
    /\ svc.asked = svc.reloads + (IF isScheduled(svc.reloadConfigurationScheduler) THEN 1 ELSE 0)
    /\ svc.updated <= svc.reloads

====
